---- MODULE Spec2Model ----
(***************************************************************************)
(* Model of baf_utils/concurrent_request_rate_limited.py: the round-based  *)
(* retry driver run_pool, the RateLimitedRequestsThreadPool (feeder thread *)
(* _extend_queue, worker threads ThreadWithReturn.run, check_all_done and  *)
(* abort, return_data and cleanup_response_data) and baf_utils/utils.py    *)
(* (to_key, to_tuple).                                                     *)
(***************************************************************************)
EXTENDS Integers, Sequences, FiniteSets, TLC

(***************************************************************************)
(* Python values.  A value is a record with one field whose name is the    *)
(* Python type: int, str, tup (tuple), lst (list), dict.  A dict is the    *)
(* insertion-ordered sequence of its items [k |-> key, v |-> value].       *)
(***************************************************************************)
PyInt(n) == [int |-> n]
PyStr(s) == [str |-> s]
PyTuple(s) == [tup |-> s]
PyList(s) == [lst |-> s]
PyDict(s) == [dict |-> s]
\* an instance of a class that sets __hash__ to None and has no __iter__
PyObject(n) == [obj |-> n]

IsInt(v) == "int" \in DOMAIN v
IsStr(v) == "str" \in DOMAIN v
IsTuple(v) == "tup" \in DOMAIN v
IsList(v) == "lst" \in DOMAIN v
IsDict(v) == "dict" \in DOMAIN v
IsObject(v) == "obj" \in DOMAIN v

\* isinstance(v, Iterable)
IsIterable(v) == IsStr(v) \/ IsTuple(v) \/ IsList(v) \/ IsDict(v)

\* isinstance(v, Hashable): lists and dicts set __hash__ to None
IsHashable(v) == IsInt(v) \/ IsStr(v) \/ IsTuple(v)

\* the elements a for loop over v yields (a dict yields its keys)
Items(v) ==
    IF IsList(v) THEN v.lst
    ELSE IF IsTuple(v) THEN v.tup
    ELSE [i \in 1..Len(v.dict) |-> v.dict[i].k]

\* hash(v) succeeds: a tuple hashes its elements
RECURSIVE DeepHashable(_)
DeepHashable(v) ==
    IF IsInt(v) \/ IsStr(v) THEN TRUE
    ELSE IF IsTuple(v) THEN \A i \in 1..Len(v.tup) : DeepHashable(v.tup[i])
    ELSE FALSE

\* bool(v), as any() applies it to the keys of a dict
Truthy(v) ==
    IF IsInt(v) THEN v.int # 0
    ELSE IF IsStr(v) THEN v.str # ""
    ELSE IF IsTuple(v) THEN Len(v.tup) > 0
    ELSE IF IsList(v) THEN Len(v.lst) > 0
    ELSE Len(v.dict) > 0

(***************************************************************************)
(* dict operations on the item sequence                                    *)
(***************************************************************************)
EmptyDict == << >>

DictKeys(d) == [i \in 1..Len(d) |-> d[i].k]

DictKeySet(d) == {d[i].k : i \in 1..Len(d)}

DictHas(d, key) == \E i \in 1..Len(d) : d[i].k = key

DictGet(d, key) == d[CHOOSE i \in 1..Len(d) : d[i].k = key].v

\* d[key] = value: an existing key keeps its position
DictSet(d, key, value) ==
    IF DictHas(d, key)
    THEN [i \in 1..Len(d) |-> IF d[i].k = key THEN [k |-> key, v |-> value] ELSE d[i]]
    ELSE Append(d, [k |-> key, v |-> value])

\* d.update(e) for a dict e
RECURSIVE DictUpdate(_, _)
DictUpdate(d, e) ==
    IF e = << >> THEN d
    ELSE DictUpdate(DictSet(d, e[1].k, e[1].v), Tail(e))

\* any(d): true when some key of d is truthy
PyAny(d) == \E i \in 1..Len(d) : Truthy(d[i].k)

(***************************************************************************)
(* baf_utils/utils.py                                                      *)
(***************************************************************************)
RECURSIVE to_tuple(_)
to_tuple(lst) ==
    PyTuple([i \in 1..Len(Items(lst)) |->
        IF IsIterable(Items(lst)[i]) /\ ~IsStr(Items(lst)[i])
        THEN to_tuple(Items(lst)[i])
        ELSE Items(lst)[i]])

\* what a call leaves in place of a value when it raises: the RuntimeError of
\* to_key, the RecursionError of the interpreter's recursion limit
RuntimeError == [raised |-> "RuntimeError"]
RecursionError == [raised |-> "RecursionError"]

IsRaised(v) == "raised" \in DOMAIN v

\* a to_key that wraps a hashable item into a tuple
to_key_wrapping(item) ==
    IF IsHashable(item) THEN PyTuple(<<item>>)
    ELSE IF IsIterable(item) THEN to_tuple(item)
    ELSE RuntimeError

to_key(item) ==
    IF IsHashable(item) THEN item
    ELSE IF IsIterable(item) THEN to_tuple(item)
    ELSE RuntimeError

\* to_tuple of baf_utils/concurrent_requests.py: every Iterable element is recursed
\* into, strings too.  Iterating a string yields its characters, each a string of
\* length one that yields itself: only the empty string ends the recursion.
RECURSIVE cr_to_tuple(_)
cr_to_tuple(lst) ==
    IF IsStr(lst)
    THEN IF lst.str = "" THEN PyTuple(<< >>) ELSE RecursionError
    ELSE LET elems == [i \in 1..Len(Items(lst)) |->
                         IF IsIterable(Items(lst)[i])
                         THEN cr_to_tuple(Items(lst)[i])
                         ELSE Items(lst)[i]]
         IN  IF \E i \in 1..Len(elems) : IsRaised(elems[i])
             THEN RecursionError
             ELSE PyTuple(elems)

\* to_key of baf_utils/concurrent_requests.py
cr_to_key(item) ==
    IF IsHashable(item) THEN item
    ELSE IF IsIterable(item) THEN cr_to_tuple(item)
    ELSE RuntimeError

(***************************************************************************)
(* Program constants                                                       *)
(***************************************************************************)
\* self.min_requests
MinRequests == 10

\* determine_batch_size(max_dur=1)
MaxDur == 1

(***************************************************************************)
(* Bounds of the model                                                     *)
(***************************************************************************)
\* caller arguments of the short backlogs are the ints 0..MaxArg
MaxArg == 1

\* longest short backlog
MaxLen == 2

\* largest max_repeat handed to run_pool
MaxRepeat == 2

\* largest max_workers of a pool
MaxWorkers == 2

\* samples appended to the latency window in the window specification
MaxSamples == 12

\* nesting depth of the items handed to to_key
MaxDepth == 2

(***************************************************************************)
(* State                                                                   *)
(***************************************************************************)
VARIABLES
    func,               \* the collaborator handed to run_pool
    kwargs,             \* Nrequests, period, use_bulk_requests, max_batch_size, max_workers
    orig_args,          \* the func_args the caller handed to run_pool
    orig_max_repeat,    \* the max_repeat the caller handed to run_pool
    ncalls,             \* number of collaborator invocations so far
    \* run_pool
    rp_pc,              \* "loop", "round", "returned", "raised"
    rp_func_args,       \* run_pool's local func_args
    max_repeat,         \* run_pool's local max_repeat
    rp_results,         \* run_pool's local results
    return_values,      \* run_pool's local return_values (Unbound before round 1)
    rounds,             \* number of pools constructed so far
    \* RateLimitedRequestsThreadPool of the current round
    func_args,          \* self.func_args, the backlog
    data_queue,         \* self.data_queue
    batched_requests,   \* self.batched_requests
    batch_size,         \* self.batch_size
    request_durations,  \* self.request_durations
    queuing_event,      \* self._queuing_event.is_set()
    results,            \* self.results
    workers,            \* self.workers: per worker its position, argument, call number
    abort_events,       \* self.abort_events: is_set() of each
    \* feeder thread (_extend_queue, check_all_done, abort)
    f_pc,               \* "wait", "put", "drain", "abort", "done", "crashed"
    next_item,          \* local next_item (Unbound before the first slice)
    abort_i,            \* index of the for loop of abort()
    \* history of the current round
    round_backlog,      \* self.func_args at construction
    pushed,             \* batches put on data_queue, in order
    called,             \* arguments handed to the collaborator, in order
    decision_log,       \* what the latency window went through, see LogDecision
    dispatched_since_wait, \* calls started since time last had to pass: since a
                        \* pacing wait of the feeder or a timeout of a get (2: two or more)
    \* utils.to_key on its own
    to_key_item,        \* the item handed to to_key (Unbound: no call of it is looked at)
    to_key_module,      \* the module whose to_key is called: "utils", "concurrent_requests"
    to_key_result,      \* what to_key returned or raised (Unbound before it returns)
    \* AuthenticatedCall.get_request / post_request on its own
    http_method,        \* "get" or "post" (Unbound: no such call is looked at)
    self_max_repeat,    \* self.max_repeat
    http_pc,            \* "loop", "after" (behind the for loop), "returned",
                        \* "raised_http", "raised_unbound"
    attempt,            \* iterations of the for loop begun so far
    resp,               \* the local resp (Unbound before the first attempt)
    token,              \* number of update_token() calls since construction
    sent,               \* the responses of all attempts, in order
    \* RunConcurrentRequest.run_request on its own
    cr_args,            \* self.args (Unbound: no such run is looked at)
    cr_pc,              \* "running", "returned", "raised"
    cr_pending,         \* positions in self.args whose future has not been handled
    response_data       \* self.response_data

cfg_vars == <<func, kwargs, orig_args, orig_max_repeat>>
key_vars == <<to_key_item, to_key_module, to_key_result>>
http_vars == <<http_method, self_max_repeat, http_pc, attempt, resp, token, sent>>
cr_vars == <<cr_args, cr_pc, cr_pending, response_data>>
aside_vars == <<key_vars, http_vars, cr_vars>>
rp_vars == <<rp_pc, rp_func_args, max_repeat, rp_results, return_values, rounds>>
feeder_vars == <<f_pc, next_item, abort_i, func_args, batched_requests, batch_size, queuing_event>>
worker_vars == <<workers, results, request_durations, ncalls, called>>
vars == <<func, kwargs, orig_args, orig_max_repeat, ncalls,
          rp_pc, rp_func_args, max_repeat, rp_results, return_values, rounds,
          func_args, data_queue, batched_requests, batch_size, request_durations,
          queuing_event, results, workers, abort_events,
          f_pc, next_item, abort_i, round_backlog, pushed, called, decision_log,
          dispatched_since_wait, to_key_item, to_key_module, to_key_result,
          http_method, self_max_repeat, http_pc, attempt, resp, token, sent,
          cr_args, cr_pc, cr_pending, response_data>>

\* a local variable that has not been assigned
Unbound == [unbound |-> TRUE]

IsBound(v) == "unbound" \notin DOMAIN v

\* {'data': dict(), 'errors': dict()}
EmptyResults == [data |-> EmptyDict, errors |-> EmptyDict]

(***************************************************************************)
(* The collaborator func(arg).  It is described by a record:               *)
(*   kind       "any": every call may succeed or fail;                     *)
(*              "every_k": the n-th call fails iff k divides n;            *)
(*              "always_ok": every call succeeds                           *)
(*   shape      "dict": a success returns {item: n for item in arg}, as    *)
(*              EquivalenceRequests.get_groups does; "scalar": a success   *)
(*              returns an int, as EquivalenceRequests.set_equivalence does*)
(*   slow_every the n-th call takes 2 seconds iff slow_every divides n,    *)
(*              0 seconds otherwise (0: never slow)                        *)
(***************************************************************************)
\* the three except branches of ThreadWithReturn.run, in source order
FailResponses ==
    << PyStr("the response was returned empty"),
       PyStr("failed with code 500"),
       PyStr("exception raised: error") >>

\* {item: n for item in arg}
RECURSIVE DictFromItems(_, _)
DictFromItems(items, value) ==
    IF items = << >> THEN EmptyDict
    ELSE DictSet(DictFromItems(SubSeq(items, 1, Len(items) - 1), value),
                 items[Len(items)], value)

\* value returned by the n-th call when it succeeds
SuccessResponse(f, n, arg) ==
    IF f.shape = "dict"
    THEN PyDict(DictFromItems(Items(arg), PyInt(n)))
    ELSE PyInt(n)

\* a dict-building collaborator raises TypeError on an unhashable item
CanSucceed(f, arg) ==
    f.shape = "dict" => \A i \in 1..Len(Items(arg)) : DeepHashable(Items(arg)[i])

CallDuration(f, n) ==
    IF f.slow_every > 0 /\ n % f.slow_every = 0 THEN 2 ELSE 0

\* the outcomes the n-th call may have: what the worker stores and under which key
Outcomes(f, n, arg) ==
    LET dur == CallDuration(f, n)
        ok == [key |-> "data", response |-> SuccessResponse(f, n, arg), dur |-> dur]
        fail(j) == [key |-> "errors", response |-> FailResponses[j], dur |-> dur]
    IN  IF ~CanSucceed(f, arg) THEN {fail(3)}
        ELSE IF f.kind = "any" THEN {ok, fail((n % 3) + 1)}
        ELSE IF f.kind = "every_k" /\ n % f.k = 0 THEN {fail(((n \div f.k) % 3) + 1)}
        ELSE {ok}

(***************************************************************************)
(* RateLimitedRequestsThreadPool helpers                                   *)
(***************************************************************************)
\* round(num / den) of Python 3: ties go to the even integer
PyRound(num, den) ==
    LET q == num \div den
        r == num % den
    IN  IF 2 * r < den THEN q
        ELSE IF 2 * r > den THEN q + 1
        ELSE IF q % 2 = 0 THEN q ELSE q + 1

\* Queue(maxsize=round(rate / 2)), rate = Nrequests / period; 0 means unbounded
QueueMaxsize(kw) == PyRound(kw.Nrequests, 2 * kw.period)

\* Queue.full()
QueueFull(q, kw) == QueueMaxsize(kw) > 0 /\ Len(q) >= QueueMaxsize(kw)

\* a window that starts afresh when it is full
DequeAppendTumbling(dq, d) ==
    IF Len(dq) = MinRequests THEN <<d>> ELSE Append(dq, d)

\* deque(maxlen=self.min_requests).append(d)
DequeAppend(dq, d) ==
    IF Len(dq) = MinRequests THEN Append(Tail(dq), d) ELSE Append(dq, d)

\* twice statistics.median(data), data not empty
Median2(data) ==
    LET s == SortSeq(data, LAMBDA a, b : a < b)
        n == Len(s)
    IN  IF n % 2 = 1 THEN 2 * s[(n + 1) \div 2]
        ELSE s[n \div 2] + s[n \div 2 + 1]

\* a decision that one slow sample in the window turns to 1
determine_batch_size_strict(durations, kw) ==
    IF /\ Len(durations) = MinRequests
       /\ \A i \in 1..Len(durations) : durations[i] < MaxDur
    THEN kw.max_batch_size
    ELSE 1

\* the batch_size determine_batch_size() leaves in self.batch_size
determine_batch_size(durations, kw) ==
    IF Len(durations) = MinRequests /\ Median2(durations) < 2 * MaxDur
    THEN kw.max_batch_size
    ELSE 1

\* a decision that determines the batch size whatever use_bulk_requests says
decide_always(kw, durations, bs) == determine_batch_size(durations, kw)

\* if self.use_bulk_requests: self.determine_batch_size()
decide_batch_size(kw, durations, bs) ==
    IF kw.use_bulk_requests THEN determine_batch_size(durations, kw) ELSE bs

\* History of the latency window of the current pool:
\*   since      samples appended since the feeder's last decision, counted when
\*              that decision saw a fast window (2: two or more)
\*   last_fast  the last decision saw min_requests samples, all below max_dur
\*   one_slow   the last decision was the first one after a single sample at or
\*              above max_dur, appended to a window that a decision saw fast
\*   fresh      samples appended since the decision that dropped the batch size
\*              from max_batch_size to 1 (-1: no such decision, or undone)
\*   regained   the value of fresh at the decision that took the batch size
\*              back to max_batch_size (-1: no such decision)
EmptyLog == [since |-> 0, last_fast |-> FALSE, one_slow |-> FALSE, fresh |-> -1, regained |-> -1]

AllFast(durations) ==
    /\ Len(durations) = MinRequests
    /\ \A i \in 1..Len(durations) : durations[i] < MaxDur

\* a worker has appended a sample to request_durations
LogSample(h) ==
    [h EXCEPT !.since = IF h.last_fast /\ @ < 2 THEN @ + 1 ELSE @,
              !.fresh = IF @ < 0 \/ @ = MinRequests THEN @ ELSE @ + 1]

\* the feeder has decided: batch size bs before, bs2 after
LogDecision(h, durations, bs, bs2) ==
    [since |-> 0,
     last_fast |-> AllFast(durations),
     one_slow |-> /\ h.last_fast /\ h.since = 1
                  /\ durations[Len(durations)] >= MaxDur,
     fresh |-> IF bs > 1 /\ bs2 = 1 THEN 0 ELSE IF bs2 > 1 THEN -1 ELSE h.fresh,
     regained |-> IF bs > 1 /\ bs2 = 1 THEN -1
                  ELSE IF bs = 1 /\ bs2 > 1 /\ h.fresh >= 0 THEN h.fresh
                  ELSE h.regained]

\* lst[n:]
SliceFrom(lst, n) == SubSeq(lst, n + 1, Len(lst))

\* the first n elements, last one first
SliceToReversed(lst, n) ==
    LET m == IF n < Len(lst) THEN n ELSE Len(lst)
    IN  [i \in 1..m |-> lst[m + 1 - i]]

\* lst[:n]
SliceTo(lst, n) == SubSeq(lst, 1, IF n < Len(lst) THEN n ELSE Len(lst))

\* arg in self.batched_requests
InList(lst, v) == \E i \in 1..Len(lst) : lst[i] = v

\* a flattening that leaves every entry under its batch key
flatten_nothing(dict_in, batched) == dict_in

RECURSIVE flatten_batch_responses(_, _)
flatten_batch_responses(dict_in, batched) ==
    IF dict_in = << >> THEN EmptyDict
    ELSE LET n == Len(dict_in)
             arg == dict_in[n].k
             value == dict_in[n].v
             dict_out == flatten_batch_responses(SubSeq(dict_in, 1, n - 1), batched)
         IN  IF InList(batched, arg)
             THEN DictUpdate(dict_out, DictFromItems(Items(arg), value))
             ELSE DictSet(dict_out, arg, value)

\* dict.update(values) accepts a mapping or an iterable of pairs
UpdateAccepts(values) ==
    \/ IsDict(values)
    \/ IsStr(values) /\ values.str = ""
    \/ /\ IsList(values) \/ IsTuple(values)
       /\ \A i \in 1..Len(Items(values)) :
            /\ IsList(Items(values)[i]) \/ IsTuple(Items(values)[i])
            /\ Len(Items(Items(values)[i])) = 2
            /\ DeepHashable(Items(Items(values)[i])[1])

\* the items dict.update(values) stores
UpdateItems(values) ==
    IF IsDict(values) THEN values.dict
    ELSE IF IsStr(values) THEN << >>
    ELSE [i \in 1..Len(Items(values)) |->
            [k |-> Items(Items(values)[i])[1], v |-> Items(Items(values)[i])[2]]]

\* data_dict after the loop "for values in data.values(): data_dict.update(values)"
RECURSIVE MergeResponses(_)
MergeResponses(data) ==
    IF data = << >> THEN EmptyDict
    ELSE DictUpdate(MergeResponses(SubSeq(data, 1, Len(data) - 1)),
                    UpdateItems(data[Len(data)].v))

\* cleanup_response_data raises TypeError/ValueError out of data_dict.update
CleanupRaises(res) == \E i \in 1..Len(res.data) : ~UpdateAccepts(res.data[i].v)

\* self.results after cleanup_response_data
cleanup_response_data(res, batched) ==
    [data |-> MergeResponses(res.data),
     errors |-> flatten_batch_responses(res.errors, batched)]

(***************************************************************************)
(* Initial states: a call run_pool(func, func_args, max_repeat, **kwargs)  *)
(***************************************************************************)
\* all lists of at most n elements of S
RECURSIVE ListsUpTo(_, _)
ListsUpTo(S, n) ==
    IF n = 0 THEN {<< >>}
    ELSE ListsUpTo(S, n - 1) \cup
         {Append(l, x) : l \in {m \in ListsUpTo(S, n - 1) : Len(m) = n - 1}, x \in S}

\* short backlogs of distinct arguments, in ascending order
ShortBacklogs ==
    {l \in ListsUpTo({PyInt(i) : i \in 0..MaxArg}, MaxLen) :
        \A i \in 1..(Len(l) - 1) : l[i].int < l[i + 1].int}

\* short backlogs (the latency window never fills), one worker, several rounds
ShortCalls ==
    [func : [kind : {"any"}, k : {0}, shape : {"dict"}, slow_every : {0}]
            \cup [kind : {"every_k"}, k : {2, 3}, shape : {"dict", "scalar"}, slow_every : {0}],
     args : ShortBacklogs,
     max_repeat : 0..MaxRepeat,
     kwargs : [Nrequests : {2}, period : {1}, use_bulk_requests : {FALSE},
               max_batch_size : {2}, max_workers : {1}]]

\* short backlogs, several workers, one round
ConcurrentCalls ==
    [func : [kind : {"any"}, k : {0}, shape : {"dict"}, slow_every : {0}],
     args : {l \in ShortBacklogs : Len(l) >= MaxLen - 1},
     max_repeat : {1},
     kwargs : [Nrequests : {2}, period : {1}, use_bulk_requests : {FALSE},
               max_batch_size : {2}, max_workers : {MaxWorkers}]]

\* short backlogs at a rate of one request per period, one worker, one round
LowRateCalls ==
    [func : [kind : {"any"}, k : {0}, shape : {"dict"}, slow_every : {0}],
     args : {l \in ShortBacklogs : Len(l) >= 1},
     max_repeat : {1},
     kwargs : [Nrequests : {1}, period : {1}, use_bulk_requests : {FALSE},
               max_batch_size : {2}, max_workers : {1}]]

\* long backlogs: MinRequests arguments and a tail, one worker, bulk requests
BulkCalls ==
    [func : [kind : {"every_k"}, k : {1, MinRequests + 1, MinRequests + 2},
             shape : {"dict"}, slow_every : {0}],
     args : {[i \in 1..MinRequests |-> PyInt(i)] \o tail :
                tail \in {<<PyInt(0)>>, <<PyInt(0), PyInt(MinRequests + 1)>>,
                          <<PyInt(MinRequests + 1), PyInt(MinRequests + 2),
                            PyInt(MinRequests + 3)>>}},
     max_repeat : {1, MaxRepeat},
     kwargs : [Nrequests : {2}, period : {1}, use_bulk_requests : {TRUE},
               max_batch_size : {2, 3}, max_workers : {1}]]

\* the state run_pool starts in, called with call.func, call.args, ...
InitWith(call) ==
    /\ func = call.func
    /\ kwargs = call.kwargs
    /\ orig_args = call.args
    /\ orig_max_repeat = call.max_repeat
    /\ ncalls = 0
    /\ rp_pc = "loop"
    /\ rp_func_args = call.args
    /\ max_repeat = call.max_repeat
    /\ rp_results = EmptyResults
    /\ return_values = Unbound
    /\ rounds = 0
    /\ func_args = << >>
    /\ data_queue = << >>
    /\ batched_requests = << >>
    /\ batch_size = 1
    /\ request_durations = << >>
    /\ queuing_event = FALSE
    /\ results = EmptyResults
    /\ workers = << >>
    /\ abort_events = << >>
    /\ f_pc = "done"
    /\ next_item = Unbound
    /\ abort_i = 1
    /\ round_backlog = << >>
    /\ pushed = << >>
    /\ called = << >>
    /\ decision_log = EmptyLog
    /\ dispatched_since_wait = 0

\* no call of to_key is looked at on its own
NoKey == to_key_item = Unbound /\ to_key_module = Unbound /\ to_key_result = Unbound

\* no call of get_request or post_request is looked at on its own
NoHttp ==
    /\ http_method = Unbound
    /\ self_max_repeat = Unbound
    /\ http_pc = Unbound
    /\ attempt = Unbound
    /\ resp = Unbound
    /\ token = Unbound
    /\ sent = Unbound

\* no run of RunConcurrentRequest is looked at on its own
NoCR ==
    /\ cr_args = Unbound
    /\ cr_pc = Unbound
    /\ cr_pending = Unbound
    /\ response_data = Unbound

NoAside == NoKey /\ NoHttp /\ NoCR

Init ==
    /\ \E call \in ShortCalls \cup ConcurrentCalls \cup LowRateCalls \cup BulkCalls :
          InitWith(call)
    /\ NoAside

(***************************************************************************)
(* run_pool                                                                *)
(***************************************************************************)
\* a loop test that admits one round too many
LoopTestOffByOne(mr, fa) == mr >= 0 /\ Len(fa) > 0

\* while max_repeat > 0 and len(func_args) > 0
LoopTest(mr, fa) == mr > 0 /\ Len(fa) > 0

\* the while test holds: RateLimitedRequestsThreadPool.__init__ up to run_requests
StartRound ==
    /\ rp_pc = "loop"
    /\ LoopTest(max_repeat, rp_func_args)
    /\ rp_pc' = "round"
    /\ rounds' = rounds + 1
    /\ func_args' = rp_func_args
    /\ data_queue' = << >>
    /\ batched_requests' = << >>
    /\ batch_size' = 1
    /\ request_durations' = << >>
    /\ queuing_event' = FALSE
    /\ results' = EmptyResults
    /\ workers' = << >>
    /\ abort_events' = << >>
    /\ f_pc' = "wait"
    /\ next_item' = Unbound
    /\ abort_i' = 1
    /\ round_backlog' = rp_func_args
    /\ pushed' = << >>
    /\ called' = << >>
    /\ decision_log' = EmptyLog
    /\ dispatched_since_wait' = 0
    /\ UNCHANGED <<cfg_vars, aside_vars, ncalls, rp_func_args, max_repeat, rp_results, return_values>>

\* the while test fails: the lines after the loop
Finish ==
    /\ rp_pc = "loop"
    /\ ~LoopTest(max_repeat, rp_func_args)
    /\ IF ~IsBound(return_values)
       THEN /\ rp_pc' = "raised"
            /\ UNCHANGED rp_results
       ELSE /\ rp_pc' = "returned"
            /\ rp_results' =
                 IF PyAny(return_values.errors)
                 THEN [rp_results EXCEPT !.errors = DictUpdate(@, return_values.errors)]
                 ELSE rp_results
    /\ UNCHANGED <<decision_log, dispatched_since_wait,
                   cfg_vars, aside_vars, ncalls, rp_func_args, max_repeat, return_values, rounds,
                   feeder_vars, data_queue, workers, results, request_durations,
                   called, abort_events, round_backlog, pushed>>

\* one iteration of the loop of run_requests
CreateWorker ==
    /\ rp_pc = "round"
    /\ Len(workers) < kwargs.max_workers
    /\ abort_events' = Append(abort_events, FALSE)
    /\ workers' = Append(workers, [pc |-> "top", arg |-> Unbound, n |-> 0])
    /\ UNCHANGED <<decision_log, dispatched_since_wait,
                   cfg_vars, aside_vars, rp_vars, feeder_vars, data_queue, results,
                   request_durations, ncalls, called, round_backlog, pushed>>

\* a test that takes every worker for finished
IsAliveNever(w) == FALSE

\* worker.is_alive()
IsAlive(w) == w.pc \notin {"exited", "crashed"}

\* return_data once no worker is alive, __exit__, and the rest of the loop body
ReturnData ==
    /\ rp_pc = "round"
    /\ Len(workers) = kwargs.max_workers
    /\ \A w \in 1..Len(workers) : ~IsAlive(workers[w])
    /\ abort_events' = [i \in 1..Len(abort_events) |-> TRUE]
    /\ IF CleanupRaises(results)
       THEN /\ rp_pc' = "raised"
            /\ UNCHANGED <<results, return_values, max_repeat, rp_results, rp_func_args>>
       ELSE LET rv == cleanup_response_data(results, batched_requests)
            IN  /\ results' = rv
                /\ return_values' = rv
                /\ max_repeat' = max_repeat - 1
                /\ rp_results' = [rp_results EXCEPT !.data = DictUpdate(@, rv.data)]
                /\ rp_func_args' = IF PyAny(rv.errors) THEN DictKeys(rv.errors) ELSE << >>
                /\ rp_pc' = "loop"
    /\ UNCHANGED <<decision_log, dispatched_since_wait,
                   cfg_vars, aside_vars, rounds, feeder_vars, data_queue, workers,
                   request_durations, ncalls, called, round_backlog, pushed>>

(***************************************************************************)
(* The feeder thread                                                       *)
(***************************************************************************)
\* a registration that only counts batch sizes above 2
register_above_two(batched, bs, ni) ==
    IF bs > 2 THEN Append(batched, to_key(ni)) ELSE batched

\* if self.batch_size > 1: self.batched_requests.append(to_key(next_item))
register_batch(batched, bs, ni) ==
    IF bs > 1 THEN Append(batched, to_key(ni)) ELSE batched

\* one pass of the while loop of _extend_queue up to data_queue.put
FeederTick ==
    /\ rp_pc = "round"
    /\ f_pc = "wait"
    /\ IF queuing_event
       THEN /\ f_pc' = "drain"
            /\ UNCHANGED <<next_item, func_args, batched_requests, batch_size, queuing_event,
                           decision_log, dispatched_since_wait>>
       ELSE LET bs == decide_batch_size(kwargs, request_durations, batch_size)
                ni == IF Len(func_args) = 0 THEN next_item
                      ELSE IF Len(func_args) < bs THEN PyList(func_args)
                      ELSE PyList(SliceTo(func_args, bs))
            IN  /\ batch_size' = bs
                /\ decision_log' = LogDecision(decision_log, request_durations, batch_size, bs)
                /\ dispatched_since_wait' = 0
                /\ queuing_event' = (Len(func_args) = 0)
                /\ next_item' = ni
                /\ IF IsBound(ni)
                   THEN /\ batched_requests' = register_batch(batched_requests, bs, ni)
                        /\ func_args' = SliceFrom(func_args, bs)
                        /\ f_pc' = "put"
                   ELSE /\ f_pc' = "crashed"
                        /\ UNCHANGED <<batched_requests, func_args>>
    /\ UNCHANGED <<cfg_vars, aside_vars, rp_vars, abort_i, data_queue, worker_vars, abort_events,
                   round_backlog, pushed>>

\* data_queue.put(next_item) blocks while the queue is full
FeederPut ==
    /\ rp_pc = "round"
    /\ f_pc = "put"
    /\ ~QueueFull(data_queue, kwargs)
    /\ data_queue' = Append(data_queue, next_item)
    /\ pushed' = Append(pushed, next_item)
    /\ f_pc' = "wait"
    /\ UNCHANGED <<decision_log, dispatched_since_wait,
                   cfg_vars, aside_vars, rp_vars, next_item, abort_i, func_args, batched_requests,
                   batch_size, queuing_event, worker_vars, abort_events, round_backlog>>

\* a test that takes any queue for empty
queue_empty_unchecked(q) == TRUE

\* self.data_queue.empty()
queue_empty(q) == q = << >>

\* check_all_done leaves its loop when data_queue.empty()
CheckAllDone ==
    /\ rp_pc = "round"
    /\ f_pc = "drain"
    /\ queue_empty(data_queue)
    /\ f_pc' = "abort"
    /\ abort_i' = 1
    /\ UNCHANGED <<decision_log, dispatched_since_wait,
                   cfg_vars, aside_vars, rp_vars, next_item, func_args, batched_requests, batch_size,
                   queuing_event, data_queue, worker_vars, abort_events, round_backlog,
                   pushed>>

\* one iteration of "for ev in self.abort_events: ev.set()", or its end
Abort ==
    /\ rp_pc = "round"
    /\ f_pc = "abort"
    /\ IF abort_i <= Len(abort_events)
       THEN /\ abort_events' = [abort_events EXCEPT ![abort_i] = TRUE]
            /\ abort_i' = abort_i + 1
            /\ f_pc' = f_pc
       ELSE /\ f_pc' = "done"
            /\ UNCHANGED <<abort_events, abort_i>>
    /\ UNCHANGED <<decision_log, dispatched_since_wait,
                   cfg_vars, aside_vars, rp_vars, next_item, func_args, batched_requests, batch_size,
                   queuing_event, data_queue, worker_vars, round_backlog, pushed>>

(***************************************************************************)
(* The worker threads (ThreadWithReturn.run)                               *)
(***************************************************************************)
\* while not self.abort.is_set()
WorkerCheck(w) ==
    /\ rp_pc = "round"
    /\ workers[w].pc = "top"
    /\ workers' = [workers EXCEPT ![w].pc = IF abort_events[w] THEN "exited" ELSE "get"]
    /\ UNCHANGED <<decision_log, dispatched_since_wait,
                   cfg_vars, aside_vars, rp_vars, feeder_vars, data_queue, results, request_durations,
                   ncalls, called, abort_events, round_backlog, pushed>>

\* self.arg_queue.get(timeout=TIMEOUT): an item and the start of the call, or Empty
WorkerGet(w) ==
    /\ rp_pc = "round"
    /\ workers[w].pc = "get"
    /\ IF data_queue # << >>
       THEN /\ data_queue' = Tail(data_queue)
            /\ ncalls' = ncalls + 1
            /\ called' = Append(called, Head(data_queue))
            /\ workers' = [workers EXCEPT ![w] =
                             [pc |-> "calling", arg |-> Head(data_queue), n |-> ncalls + 1]]
            /\ dispatched_since_wait' =
                 IF dispatched_since_wait < 2 THEN dispatched_since_wait + 1
                 ELSE dispatched_since_wait
       ELSE /\ workers' = [workers EXCEPT ![w].pc = "top"]
            /\ dispatched_since_wait' = 0
            /\ UNCHANGED <<data_queue, ncalls, called>>
    /\ UNCHANGED <<decision_log, cfg_vars, aside_vars, rp_vars, feeder_vars, results,
                   request_durations,
                   abort_events, round_backlog, pushed>>

\* a window that only successful calls are recorded in
record_sample_on_success(dq, out) ==
    IF out.key = "data" THEN DequeAppend(dq, out.dur) ELSE dq

\* self.request_durations.append(stop - start): after the try statement, whichever
\* branch of it set stop
record_sample(dq, out) == DequeAppend(dq, out.dur)

\* a store written back from a copy taken before the other workers' writes
store_result_racy(store, key, response) == <<[k |-> key, v |-> response]>>

\* self.results[key].update({to_key(arg): response}): one dict.update on the shared
\* store; the key is a tuple of builtin values, so the update runs without releasing
\* the interpreter lock and is a single step
store_result(store, key, response) == DictUpdate(store, <<[k |-> key, v |-> response]>>)

\* a worker that a failed call terminates
after_call_raising(out) == IF out.key = "errors" THEN "crashed" ELSE "top"

\* every except branch falls through to lines 62-64 and the while loop goes on
after_call(out) == "top"

\* a worker that a set abort event stops in the middle of its call
WorkerFinishPreempted(w) ==
    /\ rp_pc = "round"
    /\ workers[w].pc = "calling"
    /\ IF abort_events[w]
       THEN /\ workers' = [workers EXCEPT ![w] = [pc |-> "exited", arg |-> Unbound, n |-> 0]]
            /\ UNCHANGED <<request_durations, results, decision_log>>
       ELSE \E out \in Outcomes(func, workers[w].n, workers[w].arg) :
               /\ request_durations' = DequeAppend(request_durations, out.dur)
               /\ decision_log' = LogSample(decision_log)
               /\ results' = [results EXCEPT ![out.key] =
                                DictSet(@, to_key(workers[w].arg), out.response)]
               /\ workers' = [workers EXCEPT ![w] =
                                [pc |-> "top", arg |-> Unbound, n |-> 0]]
    /\ UNCHANGED <<dispatched_since_wait, cfg_vars, aside_vars, rp_vars, feeder_vars, data_queue,
                   ncalls, called, abort_events, round_backlog, pushed>>

\* the call returns or raises; lines 62-64 record duration and outcome
WorkerFinish(w) ==
    /\ rp_pc = "round"
    /\ workers[w].pc = "calling"
    /\ \E out \in Outcomes(func, workers[w].n, workers[w].arg) :
          IF DeepHashable(to_key(workers[w].arg))
          THEN /\ request_durations' = record_sample(request_durations, out)
               /\ decision_log' = LogSample(decision_log)
               /\ results' = [results EXCEPT ![out.key] =
                                store_result(@, to_key(workers[w].arg), out.response)]
               /\ workers' = [workers EXCEPT ![w] =
                                [pc |-> after_call(out), arg |-> Unbound, n |-> 0]]
          ELSE /\ workers' = [workers EXCEPT ![w] = [pc |-> "crashed", arg |-> Unbound, n |-> 0]]
               /\ UNCHANGED <<request_durations, results, decision_log>>
    /\ UNCHANGED <<dispatched_since_wait,
                   cfg_vars, aside_vars, rp_vars, feeder_vars, data_queue, ncalls, called,
                   abort_events, round_backlog, pushed>>

Next ==
    \/ StartRound
    \/ Finish
    \/ CreateWorker
    \/ ReturnData
    \/ FeederTick
    \/ FeederPut
    \/ CheckAllDone
    \/ Abort
    \/ \E w \in 1..Len(workers) : WorkerCheck(w)
    \/ \E w \in 1..Len(workers) : WorkerGet(w)
    \/ \E w \in 1..Len(workers) : WorkerFinish(w)

Spec == Init /\ [][Next]_vars

\* Every thread that can run does run: the main thread (run_pool and the pool's
\* constructor), the feeder thread and each worker thread.
Fairness ==
    /\ WF_vars(StartRound \/ Finish \/ CreateWorker \/ ReturnData)
    /\ WF_vars(FeederTick \/ FeederPut \/ CheckAllDone \/ Abort)
    /\ \A w \in 1..MaxWorkers :
          WF_vars(w <= Len(workers)
                    /\ (WorkerCheck(w) \/ WorkerGet(w) \/ WorkerFinish(w)))

\* calls with a collaborator that always returns, pools of one and of several workers
FairCalls ==
    [func : [kind : {"always_ok"}, k : {0}, shape : {"dict"}, slow_every : {0}],
     args : {l \in ShortBacklogs : Len(l) >= 1},
     max_repeat : {1},
     kwargs : [Nrequests : {2}, period : {1}, use_bulk_requests : {FALSE},
               max_batch_size : {2}, max_workers : {1, MaxWorkers}]]

InitFair == NoAside /\ \E call \in FairCalls : InitWith(call)

SpecFair == InitFair /\ [][Next]_vars /\ Fairness

\* One round over a backlog longer than the latency window, with calls that fail
\* (every fourth) and calls that are slow (every third): by one worker, with and
\* without bulk requests, and by two workers
RingCalls ==
    [func : [kind : {"every_k"}, k : {4}, shape : {"dict"}, slow_every : {3}],
     args : {[i \in 1..(MinRequests + 2) |-> PyInt(i)]},
     max_repeat : {1},
     kwargs : [Nrequests : {2}, period : {1}, use_bulk_requests : {FALSE, TRUE},
               max_batch_size : {2}, max_workers : {1}]]
    \cup
    [func : [kind : {"every_k"}, k : {4}, shape : {"dict"}, slow_every : {3}],
     args : {[i \in 1..(MinRequests + 1) |-> PyInt(i)]},
     max_repeat : {1},
     kwargs : [Nrequests : {2}, period : {1}, use_bulk_requests : {FALSE},
               max_batch_size : {2}, max_workers : {2}]]

InitRing == NoAside /\ \E call \in RingCalls : InitWith(call)

SpecRing == InitRing /\ [][Next]_vars

\* Calls whose backlog holds an argument that no key can be made of, alone or
\* among integers, for one worker or several and one round or several
UnkeyableCalls ==
    [func : [kind : {"always_ok"}, k : {0}, shape : {"dict", "scalar"}, slow_every : {0}],
     args : {<<PyObject(0)>>, <<PyInt(0), PyObject(0)>>, <<PyObject(0), PyInt(1)>>},
     max_repeat : {1, MaxRepeat},
     kwargs : [Nrequests : {2}, period : {1}, use_bulk_requests : {FALSE},
               max_batch_size : {2}, max_workers : {1, MaxWorkers}]]

InitUnkeyable == NoAside /\ \E call \in UnkeyableCalls : InitWith(call)

SpecUnkeyable == InitUnkeyable /\ [][Next]_vars

(***************************************************************************)
(* A hard cancel from outside: another thread, or __exit__ after an        *)
(* exception in the with-block, calls abort() on a constructed pool while  *)
(* the feeder and the workers are running.                                 *)
(***************************************************************************)
\* abort(): every worker's abort event is set (lines 223-227); nothing else is touched:
\* neither the feeder thread nor the queue nor the backlog
HardCancel ==
    /\ rp_pc = "round"
    /\ Len(workers) = kwargs.max_workers
    /\ \E w \in 1..Len(abort_events) : ~abort_events[w]
    /\ abort_events' = [i \in 1..Len(abort_events) |-> TRUE]
    /\ UNCHANGED <<decision_log, dispatched_since_wait,
                   cfg_vars, aside_vars, rp_vars, feeder_vars, data_queue, workers, results,
                   request_durations, ncalls, called, round_backlog, pushed>>

NextCancel ==
    \/ Next
    \/ HardCancel

SpecCancel == InitFair /\ [][NextCancel]_vars

(***************************************************************************)
(* The latency window on its own: workers append durations of any length   *)
(* (line 63) while the feeder goes round its loop and decides the batch    *)
(* size (lines 166-170).  The backlog, the queue and the results are left  *)
(* out: the pool is in the middle of a round.                              *)
(***************************************************************************)
\* durations a call may take: below max_dur, or above it
SampleDurations == {0, 2 * MaxDur}

window_frame == <<cfg_vars, aside_vars, rp_vars, next_item, abort_i, func_args, batched_requests,
                  queuing_event, data_queue, workers, results, called, abort_events,
                  round_backlog, pushed, dispatched_since_wait>>

InitWindow ==
    \E bulk \in BOOLEAN, mbs \in {2, 3} :
        /\ func = [kind |-> "always_ok", k |-> 0, shape |-> "dict", slow_every |-> 0]
        /\ kwargs = [Nrequests |-> 2, period |-> 1, use_bulk_requests |-> bulk,
                     max_batch_size |-> mbs, max_workers |-> 1]
        /\ orig_args = <<PyInt(0)>>
        /\ orig_max_repeat = 1
        /\ ncalls = 0
        /\ rp_pc = "round"
        /\ rp_func_args = <<PyInt(0)>>
        /\ max_repeat = 1
        /\ rp_results = EmptyResults
        /\ return_values = Unbound
        /\ rounds = 1
        /\ func_args = <<PyInt(0)>>
        /\ data_queue = << >>
        /\ batched_requests = << >>
        /\ batch_size = 1
        /\ request_durations = << >>
        /\ queuing_event = FALSE
        /\ results = EmptyResults
        /\ workers = << >>
        /\ abort_events = << >>
        /\ f_pc = "wait"
        /\ next_item = Unbound
        /\ abort_i = 1
        /\ round_backlog = <<PyInt(0)>>
        /\ pushed = << >>
        /\ called = << >>
        /\ decision_log = EmptyLog
        /\ dispatched_since_wait = 0
        /\ NoAside

\* self.request_durations.append(stop - start) of a call that took d seconds
RecordDuration ==
    /\ ncalls < MaxSamples
    /\ \E d \in SampleDurations :
          request_durations' = DequeAppend(request_durations, d)
    /\ ncalls' = ncalls + 1
    /\ decision_log' = LogSample(decision_log)
    /\ UNCHANGED <<window_frame, batch_size, f_pc>>

\* the head of a pass of _extend_queue: the batch size is decided
DecideBatchSize ==
    /\ f_pc = "wait"
    /\ batch_size' = decide_batch_size(kwargs, request_durations, batch_size)
    /\ decision_log' = LogDecision(decision_log, request_durations, batch_size,
                                   decide_batch_size(kwargs, request_durations, batch_size))
    /\ f_pc' = "put"
    /\ UNCHANGED <<window_frame, request_durations, ncalls>>

\* the rest of the pass: back to self._queuing_event.wait
PassDone ==
    /\ f_pc = "put"
    /\ f_pc' = "wait"
    /\ UNCHANGED <<window_frame, request_durations, ncalls, batch_size, decision_log>>

NextWindow ==
    \/ RecordDuration
    \/ DecideBatchSize
    \/ PassDone

SpecWindow == InitWindow /\ [][NextWindow]_vars

(***************************************************************************)
(* The same window with determine_batch_size taken apart into its reads of *)
(* the shared deque: len(self.request_durations) (line 196) and            *)
(* median(self.request_durations) (line 197).  Workers append between them. *)
(***************************************************************************)
\* a copy that misses the sample appended last
window_snapshot_torn(durations) ==
    IF durations = << >> THEN durations ELSE SubSeq(durations, 1, Len(durations) - 1)

\* sorted(data) inside statistics.median: the deque is copied by one C-level
\* iteration, during which no other thread runs
window_snapshot(durations) == durations

\* self.batch_size = 1 and the length test (lines 195-196); without bulk requests
\* determine_batch_size is not called
CheckWindowLen ==
    /\ f_pc = "wait"
    /\ IF ~kwargs.use_bulk_requests
       THEN /\ f_pc' = "put"
            /\ UNCHANGED batch_size
       ELSE /\ batch_size' = 1
            /\ f_pc' = IF Len(request_durations) = MinRequests THEN "median" ELSE "put"
    /\ decision_log' = [decision_log EXCEPT !.since = 0,
                                            !.last_fast = AllFast(request_durations),
                                            !.one_slow = FALSE]
    /\ UNCHANGED <<window_frame, request_durations, ncalls>>

\* median(self.request_durations) and the comparison (lines 197-199); the median
\* of no data raises StatisticsError
TakeMedian ==
    /\ f_pc = "median"
    /\ LET data == window_snapshot(request_durations)
       IN  IF data = << >>
           THEN /\ f_pc' = "crashed"
                /\ UNCHANGED batch_size
           ELSE /\ f_pc' = "put"
                /\ batch_size' = IF Median2(data) < 2 * MaxDur
                                 THEN kwargs.max_batch_size ELSE 1
    /\ decision_log' = [decision_log EXCEPT !.one_slow =
                           /\ decision_log.last_fast
                           /\ decision_log.since = 1
                           /\ request_durations[Len(request_durations)] >= MaxDur]
    /\ UNCHANGED <<window_frame, request_durations, ncalls>>

NextSnapshot ==
    \/ RecordDuration
    \/ CheckWindowLen
    \/ TakeMedian
    \/ PassDone

SpecSnapshot == InitWindow /\ [][NextSnapshot]_vars

(***************************************************************************)
(* utils.to_key on its own: an item is built from scalars and strings by   *)
(* nesting lists and tuples, then handed to to_key.  No pool runs.         *)
(***************************************************************************)
\* hashable scalars and strings
KeyAtoms == {PyInt(0), PyStr("ab"), PyStr("")}

\* nesting depth of a value: 0 for a scalar or a string
RECURSIVE Depth(_)
Depth(v) ==
    IF IsInt(v) \/ IsStr(v) THEN 0
    ELSE LET ds == {Depth(Items(v)[i]) : i \in 1..Len(Items(v))}
         IN  1 + (IF ds = {} THEN 0 ELSE CHOOSE d \in ds : \A e \in ds : e <= d)

\* a list or a tuple of the elements s
Container(kind, s) == IF kind = "lst" THEN PyList(s) ELSE PyTuple(s)

\* the call of run_pool that stays idle while to_key is looked at
IdleCall ==
    [func |-> [kind |-> "always_ok", k |-> 0, shape |-> "dict", slow_every |-> 0],
     args |-> << >>, max_repeat |-> 0,
     kwargs |-> [Nrequests |-> 2, period |-> 1, use_bulk_requests |-> FALSE,
                 max_batch_size |-> 2, max_workers |-> 1]]

InitKey ==
    /\ InitWith(IdleCall)
    /\ to_key_item \in KeyAtoms \cup {PyList(<< >>), PyTuple(<< >>)}
    /\ to_key_module \in {"utils", "concurrent_requests"}
    /\ to_key_result = Unbound
    /\ NoHttp
    /\ NoCR

\* the variables of run_pool and of the pool
pool_vars == <<cfg_vars, rp_vars, feeder_vars, worker_vars, data_queue, abort_events,
               round_backlog, pushed, decision_log, dispatched_since_wait>>

key_frame == <<pool_vars, http_vars, cr_vars>>

\* the caller wraps the item into a list or a tuple, alone or beside a scalar
NestItem ==
    /\ to_key_result = Unbound
    /\ Depth(to_key_item) < MaxDepth
    /\ \E kind \in {"lst", "tup"} :
          \/ to_key_item' = Container(kind, <<to_key_item>>)
          \/ \E a \in KeyAtoms :
                \/ to_key_item' = Container(kind, <<to_key_item, a>>)
                \/ to_key_item' = Container(kind, <<a, to_key_item>>)
    /\ UNCHANGED <<key_frame, to_key_module, to_key_result>>

\* key = to_key(item)
CallToKey ==
    /\ to_key_result = Unbound
    /\ to_key_result' = IF to_key_module = "utils" THEN to_key(to_key_item)
                         ELSE cr_to_key(to_key_item)
    /\ UNCHANGED <<key_frame, to_key_item, to_key_module>>

NextKey ==
    \/ NestItem
    \/ CallToKey

SpecKey == InitKey /\ [][NextKey]_vars

(***************************************************************************)
(* AuthenticatedCall.get_request and post_request (basic_requests.py): the *)
(* for loop over range(self.max_repeat), the test behind it, the return.   *)
(* The two methods differ in the requests function they call only.         *)
(***************************************************************************)
\* the responses the server may give: resp.ok is status_code < 400
Responses ==
    {[ok |-> TRUE, status_code |-> 200],
     [ok |-> FALSE, status_code |-> 404],
     [ok |-> FALSE, status_code |-> 500]}

InitHttp ==
    /\ InitWith(IdleCall)
    /\ NoKey
    /\ NoCR
    /\ http_method \in {"get", "post"}
    /\ self_max_repeat \in 0..MaxRepeat
    /\ http_pc = "loop"
    /\ attempt = 0
    /\ resp = Unbound
    /\ token = 1
    /\ sent = << >>

http_frame == <<pool_vars, key_vars, cr_vars>>

\* a loop that goes on after a response that is ok
loop_never_breaks(r) == FALSE

\* if resp.ok: break
loop_breaks(r) == r.ok

\* one iteration of the for loop: the token is refreshed when it has expired, the
\* request is sent, the loop is left on a response that is ok
Attempt ==
    /\ http_pc = "loop"
    /\ attempt < self_max_repeat
    /\ \E expired \in BOOLEAN, r \in Responses :
          /\ token' = IF expired THEN token + 1 ELSE token
          /\ resp' = r
          /\ sent' = Append(sent, r)
          /\ http_pc' = IF loop_breaks(r) THEN "after" ELSE "loop"
    /\ attempt' = attempt + 1
    /\ UNCHANGED <<http_frame, http_method, self_max_repeat>>

\* range(self.max_repeat) is exhausted
LoopExhausted ==
    /\ http_pc = "loop"
    /\ attempt >= self_max_repeat
    /\ http_pc' = "after"
    /\ UNCHANGED <<http_frame, http_method, self_max_repeat, attempt, resp, token, sent>>

\* if not resp.ok: resp.raise_for_status(); return resp.  Without an iteration
\* resp is not bound and the test raises UnboundLocalError
AfterLoop ==
    /\ http_pc = "after"
    /\ http_pc' = IF resp = Unbound THEN "raised_unbound"
                  ELSE IF ~resp.ok THEN "raised_http"
                  ELSE "returned"
    /\ UNCHANGED <<http_frame, http_method, self_max_repeat, attempt, resp, token, sent>>

NextHttp ==
    \/ Attempt
    \/ LoopExhausted
    \/ AfterLoop

SpecHttp == InitHttp /\ [][NextHttp]_vars

(***************************************************************************)
(* RunConcurrentRequest.run_request (concurrent_requests.py): one future   *)
(* per item of self.args, handled in the order in which they complete.     *)
(***************************************************************************)
\* the arguments of a run: two ints, a list of an int and a list of a string
CRItems == {PyInt(0), PyInt(1), PyList(<<PyInt(0)>>), PyList(<<PyStr("ab")>>)}

CRArgs == UNION {[1..n -> CRItems] : n \in 0..MaxLen}

\* what future.result() does: it returns the value of request_fcn or raises what
\* request_fcn raised.  "other" is any exception that is neither EmptyResponse
\* nor HTTPError (requests.exceptions.ConnectionError, ValueError, ...)
FutureOutcomes == {"ok", "EmptyResponse", "HTTPError", "other"}

InitCR ==
    /\ InitWith(IdleCall)
    /\ NoKey
    /\ NoHttp
    /\ cr_args \in CRArgs
    /\ cr_pc = "running"
    /\ cr_pending = 1..Len(cr_args)
    /\ response_data = [data |-> EmptyDict, errors |-> EmptyDict]

cr_frame == <<pool_vars, key_vars, http_vars>>

\* the body of the loop over as_completed for the future of position p
record_future(rd, key, outcome) ==
    CASE outcome = "ok" -> [rd EXCEPT !.data = DictSet(@, key, PyStr("response"))]
      [] outcome = "EmptyResponse" ->
            [rd EXCEPT !.errors = DictSet(@, key, PyStr("the response was returned empty"))]
      [] outcome = "HTTPError" ->
            [rd EXCEPT !.errors = DictSet(@, key, PyStr("failed with code 404"))]

\* a future completes and is handled: the key of its item is computed, the result
\* or the error is stored; an exception of to_key and an exception of the request
\* that no except clause names leave run_request
HandleFuture ==
    /\ cr_pc = "running"
    /\ \E p \in cr_pending, outcome \in FutureOutcomes :
          LET key == cr_to_key(cr_args[p])
          IN IF IsRaised(key) \/ outcome = "other"
             THEN /\ cr_pc' = "raised"
                  /\ UNCHANGED <<cr_pending, response_data>>
             ELSE /\ cr_pending' = cr_pending \ {p}
                  /\ response_data' = record_future(response_data, key, outcome)
                  /\ UNCHANGED cr_pc
    /\ UNCHANGED <<cr_frame, cr_args>>

\* return self.response_data
ReturnResponseData ==
    /\ cr_pc = "running"
    /\ cr_pending = {}
    /\ cr_pc' = "returned"
    /\ UNCHANGED <<cr_frame, cr_args, cr_pending, response_data>>

NextCR ==
    \/ HandleFuture
    \/ ReturnResponseData

SpecCR == InitCR /\ [][NextCR]_vars

(***************************************************************************)
(* A RateLimitedRequestsThreadPool that is constructed by its user (not by *)
(* run_pool, which never constructs one for an empty backlog) and whose    *)
(* return_data is called.                                                  *)
(***************************************************************************)
\* short backlogs, the empty one included, one or several workers
PoolCalls ==
    [func : [kind : {"any"}, k : {0}, shape : {"dict"}, slow_every : {0}],
     args : ShortBacklogs,
     max_repeat : {1},
     kwargs : [Nrequests : {2}, period : {1}, use_bulk_requests : {FALSE},
               max_batch_size : {2}, max_workers : {1, MaxWorkers}]]

\* the state __init__ sets up before run_requests creates the workers; rp_pc is
\* "round" until return_data has returned
InitPool ==
    /\ NoAside
    /\ \E call \in PoolCalls :
          /\ func = call.func
          /\ kwargs = call.kwargs
          /\ orig_args = call.args
          /\ orig_max_repeat = call.max_repeat
          /\ ncalls = 0
          /\ rp_pc = "round"
          /\ rp_func_args = call.args
          /\ max_repeat = call.max_repeat
          /\ rp_results = EmptyResults
          /\ return_values = Unbound
          /\ rounds = 0
          /\ func_args = call.args
          /\ data_queue = << >>
          /\ batched_requests = << >>
          /\ batch_size = 1
          /\ request_durations = << >>
          /\ queuing_event = FALSE
          /\ results = EmptyResults
          /\ workers = << >>
          /\ abort_events = << >>
          /\ f_pc = "wait"
          /\ next_item = Unbound
          /\ abort_i = 1
          /\ round_backlog = call.args
          /\ pushed = << >>
          /\ called = << >>
          /\ decision_log = EmptyLog
          /\ dispatched_since_wait = 0

\* the threads of one pool: the constructor and return_data, the feeder, the workers
NextPool ==
    \/ CreateWorker
    \/ ReturnData
    \/ FeederTick
    \/ FeederPut
    \/ CheckAllDone
    \/ Abort
    \/ \E w \in 1..Len(workers) : WorkerCheck(w)
    \/ \E w \in 1..Len(workers) : WorkerGet(w)
    \/ \E w \in 1..Len(workers) : WorkerFinish(w)

SpecPool == InitPool /\ [][NextPool]_vars

(***************************************************************************)
(* Properties                                                              *)
(***************************************************************************)
\* the arguments of a sequence of batches, in order
RECURSIVE ConcatItems(_)
ConcatItems(batches) ==
    IF batches = << >> THEN << >>
    ELSE Items(batches[1]) \o ConcatItems(Tail(batches))

IsPrefix(s, t) == Len(s) <= Len(t) /\ s = SubSeq(t, 1, Len(s))

\* canonical keys of the arguments of a list
KeysOf(args) == {to_key(args[i]) : i \in 1..Len(args)}

\* a round has just completed: return_values holds what return_data returned
RoundCompleted == rp_pc = "loop" /\ rounds > 0

\* C1: after a round has completed, the keys of its success map and of its
\* failure map are disjoint and together are the keys of the round's backlog.
C1_CoverageAndDisjointness ==
    RoundCompleted =>
        /\ DictKeySet(return_values.data) \cap DictKeySet(return_values.errors) = {}
        /\ DictKeySet(return_values.data) \cup DictKeySet(return_values.errors)
             = KeysOf(round_backlog)

\* C2: within a round the batches put on the queue hold every backlog argument
\* once, in order: what was pushed is always a prefix of the round's backlog.
C2_EachArgumentPushedOnce ==
    rp_pc = "round" => IsPrefix(ConcatItems(pushed), round_backlog)

\* C3: the result run_pool returns holds, among its failures, every entry of
\* the failure map of the last round.
C3_LastFailuresReturned ==
    rp_pc = "returned" =>
        \A i \in 1..Len(return_values.errors) :
            /\ DictHas(rp_results.errors, return_values.errors[i].k)
            /\ DictGet(rp_results.errors, return_values.errors[i].k)
                 = return_values.errors[i].v

\* C4: a round that ends with failures while rounds remain is followed by a round
\* whose backlog is the list of the failed keys: run_pool does not return with
\* failures and rounds left, and every later round's backlog is the key list of
\* the previous round's failure map.
C4_FailedKeysRetried ==
    /\ RoundCompleted /\ Len(return_values.errors) > 0 /\ max_repeat > 0
         => rp_func_args = DictKeys(return_values.errors)
    /\ rp_pc = "returned" => ~(Len(return_values.errors) > 0 /\ max_repeat > 0)
    /\ rp_pc = "round" /\ rounds > 1 => round_backlog = DictKeys(return_values.errors)

\* C5: an entry of the cumulative success map is never overwritten by a later
\* round, and a later round's backlog holds only keys of the previous round's
\* failure map.
C5_SuccessesNeverOverwritten ==
    [][/\ \A i \in 1..Len(rp_results.data) :
            /\ DictHas(rp_results'.data, rp_results.data[i].k)
            /\ DictGet(rp_results'.data, rp_results.data[i].k) = rp_results.data[i].v
       /\ rp_pc' = "round" /\ rounds' > 1 =>
            \A j \in 1..Len(round_backlog') :
                DictHas(return_values'.errors, round_backlog'[j])]_vars

\* C6: no key is in both the success map and the failure map run_pool returns.
C6_ReturnedPartitionsDisjoint ==
    rp_pc = "returned" =>
        DictKeySet(rp_results.data) \cap DictKeySet(rp_results.errors) = {}

\* C7: run_pool runs at most max_repeat rounds, never a round on an empty
\* backlog, and returns only when max_repeat rounds have run or the backlog for
\* the next round is empty.
C7_RoundsBounded ==
    /\ rounds <= orig_max_repeat
    /\ rp_pc \in {"loop", "returned"} => max_repeat = orig_max_repeat - rounds
    /\ rp_pc = "round" => max_repeat = orig_max_repeat - rounds + 1
    /\ rp_pc = "round" => Len(round_backlog) > 0
    /\ rp_pc = "returned" => rounds = orig_max_repeat \/ rp_func_args = << >>

\* run_pool returned after its last permitted round, with retries still wanted
C7_Witness ==
    /\ rp_pc = "returned"
    /\ rounds = orig_max_repeat
    /\ rounds > 1
    /\ rp_func_args # << >>

\* rounds a retry driver needs for m arguments when every k-th call fails and
\* c calls were made before: each round calls once per argument and retries
\* the failed ones
RECURSIVE NeededRounds(_, _, _)
NeededRounds(m, c, k) ==
    LET failed == Cardinality({n \in (c + 1)..(c + m) : n % k = 0})
    IN  IF failed = 0 THEN 1 ELSE 1 + NeededRounds(failed, c + m, k)

\* C8: with a collaborator that fails every k-th call and max_repeat at least
\* the rounds needed, the returned result has no failures and every original
\* argument among its successes.
C8_RetryConvergence ==
    ( /\ rp_pc = "returned"
      /\ func.kind = "every_k" /\ func.k >= 2 /\ func.shape = "dict"
      /\ orig_max_repeat >= NeededRounds(Len(orig_args), 0, func.k) )
    => /\ rp_results.errors = EmptyDict
       /\ KeysOf(orig_args) \subseteq DictKeySet(rp_results.data)

\* C9: when return_data unflattens, a failure entry under the key of a pushed
\* batch of N > 1 arguments becomes one entry per sub-argument key, each with
\* the batch's failure value, and no entry stays under the batch key.
C9_BatchFailureUnflattened ==
    [][rp_pc = "round" /\ rp_pc' = "loop" =>
         \A i \in 1..Len(results.errors) :
            LET key == results.errors[i].k
            IN  ( /\ Len(Items(key)) > 1
                  /\ \E b \in 1..Len(pushed) : to_key(pushed[b]) = key )
                => /\ \A j \in 1..Len(Items(key)) :
                        /\ DictHas(results'.errors, Items(key)[j])
                        /\ DictGet(results'.errors, Items(key)[j]) = results.errors[i].v
                   /\ ~DictHas(results'.errors, key)]_vars

\* a round has completed in which a batch of more than one argument failed:
\* each of its sub-arguments has a failure entry
C9_Witness ==
    /\ RoundCompleted
    /\ \E b \in 1..Len(pushed) :
          /\ Len(Items(pushed[b])) > 1
          /\ \A j \in 1..Len(Items(pushed[b])) :
                DictHas(return_values.errors, to_key(Items(pushed[b])[j]))

\* C10: return_data unflattens the success map by the rule of the failure map:
\* a batch key becomes one entry per sub-argument key with the response, any
\* other key keeps its entry.
C10_SuccessesUnflattenedLikeFailures ==
    [][rp_pc = "round" /\ rp_pc' # "round" =>
         /\ rp_pc' = "loop"
         /\ results'.data = flatten_batch_responses(results.data, batched_requests)]_vars

\* C11: with batch size 1 the feeder hands on the single argument itself, one
\* of the arguments of the round's backlog, and after such a round every key of
\* the round's maps is the key of a backlog argument.
C11_SingletonPassesThrough ==
    /\ rp_pc = "round" /\ f_pc = "put" /\ batch_size = 1
         => \E i \in 1..Len(round_backlog) : next_item = round_backlog[i]
    /\ RoundCompleted /\ batch_size = 1 /\ batched_requests = << >>
         => DictKeySet(return_values.data) \cup DictKeySet(return_values.errors)
              \subseteq KeysOf(round_backlog)

\* C12: the caller's arguments are scalars, equal to their keys, so retrying
\* round-trips: in every round after the first, each argument handed to the
\* collaborator is one of the caller's arguments, as it was in the round before.
C12_RetryReseedingRoundTrips ==
    rp_pc = "round" /\ rounds > 1 =>
        \A b \in 1..Len(called) :
            \A j \in 1..Len(Items(called[b])) :
                \E i \in 1..Len(orig_args) : Items(called[b])[j] = orig_args[i]

\* C13 as stated: at every moment of a round a key is in batched_requests if
\* and only if it is the key of a pushed batch of more than one argument.
C13_RegisteredIffPushedGroup ==
    rp_pc = "round" =>
        \A key \in {batched_requests[i] : i \in 1..Len(batched_requests)}
                    \cup KeysOf(pushed) :
            InList(batched_requests, key)
              <=> \E b \in 1..Len(pushed) :
                     to_key(pushed[b]) = key /\ Len(Items(pushed[b])) > 1

\* C13 (amended): every pushed batch of more than one argument has its key in
\* batched_requests, and batched_requests grows only in a feeder pass whose
\* batch size is greater than 1, by the key of the batch that pass will push,
\* whatever the number of arguments of that batch.
C13_BatchKeysRegistered ==
    [][/\ \A b \in 1..Len(pushed') :
            Len(Items(pushed'[b])) > 1 => InList(batched_requests', to_key(pushed'[b]))
       /\ rp_pc = "round" /\ batched_requests' # batched_requests =>
            /\ f_pc = "wait" /\ f_pc' = "put"
            /\ batch_size' > 1
            /\ batched_requests' = Append(batched_requests, to_key(next_item'))]_vars

\* a batch of several arguments was pushed and is registered, next to the
\* registered key of a batch of one argument
C13_Witness ==
    /\ rp_pc = "round"
    /\ \E b \in 1..Len(pushed) :
          Len(Items(pushed[b])) > 1 /\ InList(batched_requests, to_key(pushed[b]))
    /\ \E i \in 1..Len(batched_requests) : Len(Items(batched_requests[i])) = 1

\* the k-th smallest of the samples
OrderStat(data, k) ==
    CHOOSE v \in {data[i] : i \in 1..Len(data)} :
        /\ Cardinality({i \in 1..Len(data) : data[i] < v}) < k
        /\ k <= Cardinality({i \in 1..Len(data) : data[i] <= v})

\* the median of the samples is strictly below max_dur
MedianBelowMaxDur(data) ==
    LET n == Len(data)
    IN  IF n % 2 = 1 THEN OrderStat(data, (n + 1) \div 2) < MaxDur
        ELSE OrderStat(data, n \div 2) + OrderStat(data, n \div 2 + 1) < 2 * MaxDur

\* a step in which the feeder decides the batch size
FeederDecides == f_pc = "wait" /\ f_pc' \in {"put", "crashed"}

\* C14: a feeder decision leaves batch size 1 when bulk requests are disabled;
\* when they are enabled it leaves max_batch_size if the window holds exactly
\* min_requests samples whose median is strictly below the threshold, and 1
\* otherwise.
C14_BatchSizeDecision ==
    [][FeederDecides =>
         batch_size' =
            IF ~kwargs.use_bulk_requests THEN 1
            ELSE IF Len(request_durations) = MinRequests
                    /\ MedianBelowMaxDur(request_durations)
                 THEN kwargs.max_batch_size
                 ELSE 1]_vars

\* the feeder has decided on max_batch_size with slow samples in the window
C14_Witness ==
    /\ f_pc = "put"
    /\ kwargs.use_bulk_requests
    /\ batch_size = kwargs.max_batch_size
    /\ \E i \in 1..Len(request_durations) : request_durations[i] >= MaxDur

\* number of samples at or above max_dur
SlowSamples(data) == Cardinality({i \in 1..Len(data) : data[i] >= MaxDur})

\* C15 as stated: with bulk requests, a decision on a window of min_requests
\* samples all below the threshold yields max_batch_size, and the first decision
\* after one sample at or above the threshold was appended to such a window
\* yields 1.
C15_OneSlowSampleDrops ==
    [][FeederDecides /\ kwargs.use_bulk_requests =>
         /\ AllFast(request_durations) => batch_size' = kwargs.max_batch_size
         /\ ( /\ decision_log.last_fast /\ decision_log.since = 1
               /\ request_durations[Len(request_durations)] >= MaxDur )
            => batch_size' = 1]_vars

\* C15 (amended): with bulk requests, a decision on a window of min_requests
\* samples all below the threshold yields max_batch_size; the first decision
\* after one sample at or above the threshold was appended to such a window
\* still yields max_batch_size; a decision on a full window yields
\* max_batch_size while fewer than half of its samples are at or above the
\* threshold, and 1 once more than half of them are.
C15_MedianDecides ==
    [][FeederDecides /\ kwargs.use_bulk_requests =>
         /\ AllFast(request_durations) => batch_size' = kwargs.max_batch_size
         /\ ( /\ decision_log.last_fast /\ decision_log.since = 1
               /\ request_durations[Len(request_durations)] >= MaxDur )
            => batch_size' = kwargs.max_batch_size
         /\ Len(request_durations) = MinRequests =>
               /\ 2 * SlowSamples(request_durations) < MinRequests
                    => batch_size' = kwargs.max_batch_size
               /\ 2 * SlowSamples(request_durations) > MinRequests
                    => batch_size' = 1]_vars

\* the feeder has decided on max_batch_size right after one slow sample was
\* appended to a window that the decision before saw fast
C15_Witness ==
    /\ f_pc = "put"
    /\ kwargs.use_bulk_requests
    /\ decision_log.one_slow
    /\ SlowSamples(request_durations) = 1
    /\ batch_size = kwargs.max_batch_size

\* C16 as stated: after a decision has dropped the batch size to 1, a decision
\* takes it back to max_batch_size only when min_requests samples were appended
\* since the drop and all of them are below the threshold.
C16_ReturnNeedsFreshWindow ==
    [][( /\ FeederDecides /\ kwargs.use_bulk_requests
         /\ decision_log.fresh >= 0
         /\ batch_size' = kwargs.max_batch_size )
       => /\ decision_log.fresh = MinRequests
          /\ AllFast(request_durations)]_vars

\* C16 (amended): after a decision has dropped the batch size to 1, a decision
\* takes it back to max_batch_size exactly when the median of the window, the
\* last min_requests samples, is strictly below the threshold again; this needs
\* at least one sample appended since the drop, and one can be enough.
C16_ReturnFollowsMedian ==
    [][FeederDecides /\ kwargs.use_bulk_requests /\ decision_log.fresh >= 0 =>
         /\ batch_size' = kwargs.max_batch_size <=> MedianBelowMaxDur(request_durations)
         /\ batch_size' = kwargs.max_batch_size => decision_log.fresh >= 1
         /\ batch_size' \in {1, kwargs.max_batch_size}]_vars

\* the batch size is back at max_batch_size one sample after it was dropped,
\* with slow samples still in the window
C16_Witness ==
    /\ f_pc = "put"
    /\ kwargs.use_bulk_requests
    /\ decision_log.regained = 1
    /\ batch_size = kwargs.max_batch_size
    /\ SlowSamples(request_durations) > 0

\* ceiling of (Nrequests / period) / 2
CeilHalfRate(kw) == (kw.Nrequests + 2 * kw.period - 1) \div (2 * kw.period)

\* C17: with the capacity C of C18, the queue never holds more than C batches,
\* and while no worker has pulled a batch the feeder has pushed at most C.
C17_Backpressure ==
    rp_pc = "round" =>
        /\ Len(data_queue) <= CeilHalfRate(kwargs)
        /\ called = << >> => Len(pushed) <= CeilHalfRate(kwargs)

\* C18: the queue of a pool is bounded and its capacity is the ceiling of
\* (Nrequests / period) / 2.
C18_QueueCapacityIsCeiling ==
    rp_pc = "round" =>
        /\ QueueMaxsize(kwargs) > 0
        /\ QueueMaxsize(kwargs) = CeilHalfRate(kwargs)

\* C19: dispatches to the collaborator are spaced by the pacing interval: no
\* two calls start without a time-consuming step between them.
C19_DispatchesPaced ==
    rp_pc = "round" => dispatched_since_wait <= 1

\* C20: a call that fails, in whichever of the three shapes, leaves one entry
\* with the failure's response under the key of its batch in the failure map,
\* and its worker goes back to the head of its loop; a worker that is alive
\* exits only when its own abort event is set.
C20_FailureKeepsWorkerAlive ==
    [][rp_pc = "round" /\ rp_pc' = "round" =>
         \A w \in 1..Len(workers) :
            /\ ( /\ workers[w].pc = "calling" /\ workers'[w].pc # "calling"
                  /\ results'.data = results.data )
               => /\ workers'[w].pc = "top"
                  /\ DictHas(results'.errors, to_key(workers[w].arg))
                  /\ \E j \in 1..Len(FailResponses) :
                        DictGet(results'.errors, to_key(workers[w].arg)) = FailResponses[j]
                  /\ Len(results'.errors) <= Len(results.errors) + 1
                  /\ \A i \in 1..Len(results.errors) :
                        results.errors[i].k # to_key(workers[w].arg)
                          => /\ DictHas(results'.errors, results.errors[i].k)
                             /\ DictGet(results'.errors, results.errors[i].k)
                                  = results.errors[i].v
            /\ IsAlive(workers[w]) /\ ~IsAlive(workers'[w])
               => workers'[w].pc = "exited" /\ abort_events[w]]_vars

\* the only worker of a pool is in its third call after its first two calls
\* failed in two different shapes
C20_Witness ==
    /\ rp_pc = "round"
    /\ kwargs.max_workers = 1
    /\ Len(workers) = 1
    /\ workers[1].pc = "calling"
    /\ Len(results.errors) = 2
    /\ results.errors[1].v # results.errors[2].v
    /\ results.data = EmptyDict

\* C21: under fair scheduling every round comes to its end: the abort events of
\* all workers of the pool get set, every worker exits and return_data returns.
C21_RoundTerminates ==
    (rp_pc = "round") ~>
        ( /\ rp_pc # "round"
          /\ Len(workers) = kwargs.max_workers
          /\ \A w \in 1..Len(workers) : workers[w].pc = "exited" /\ abort_events[w] )

\* C22: the feeder goes from queuing to draining to aborting and never back;
\* within a round an abort event is set only by the feeder's abort, after the
\* queuing event was set on an empty backlog and the queue was seen empty; an
\* abort event that is set stays set.
C22_AbortAfterDrain ==
    [][rp_pc = "round" /\ rp_pc' = "round" =>
         /\ \A w \in 1..Len(abort_events) :
               /\ abort_events[w] => abort_events'[w]
               /\ ~abort_events[w] /\ abort_events'[w] =>
                     /\ f_pc = "abort"
                     /\ queuing_event /\ func_args = << >>
                     /\ data_queue = << >>
         /\ f_pc' # f_pc =>
               <<f_pc, f_pc'>> \in {<<"wait", "put">>, <<"put", "wait">>,
                                    <<"wait", "crashed">>, <<"wait", "drain">>,
                                    <<"drain", "abort">>, <<"abort", "done">>}]_vars

\* the feeder has finished its abort in a pool of several workers: all abort
\* events are set while a worker has not yet exited
C22_Witness ==
    /\ rp_pc = "round"
    /\ f_pc = "done"
    /\ Len(abort_events) > 1
    /\ \A w \in 1..Len(abort_events) : abort_events[w]
    /\ \E w \in 1..Len(workers) : IsAlive(workers[w])

\* C23: when return_data reads the results, no worker of the round is running
\* any more, and every batch a worker pulled has its outcome under its key in
\* the success map or in the failure map.
C23_JoinBeforeRead ==
    [][rp_pc = "round" /\ rp_pc' # "round" =>
         /\ Len(workers) = kwargs.max_workers
         /\ \A w \in 1..Len(workers) : workers[w].pc = "exited"
         /\ \A b \in 1..Len(called) :
               \/ DictHas(results.data, to_key(called[b]))
               \/ DictHas(results.errors, to_key(called[b]))]_vars

\* a round of a pool of several workers has completed after several calls
C23_Witness ==
    /\ RoundCompleted
    /\ Len(workers) > 1
    /\ Len(called) > 1
    /\ \A w \in 1..Len(workers) : workers[w].pc = "exited"

\* C24: a worker whose abort event is set while its call is in flight finishes
\* the call, appends its duration and stores its outcome, and goes back to the
\* head of its loop; a worker exits only from the head of its loop, with its
\* abort event set.
C24_CancellationIsCooperative ==
    [][rp_pc = "round" /\ rp_pc' = "round" =>
         \A w \in 1..Len(workers) :
            /\ ( /\ workers[w].pc = "calling" /\ abort_events[w]
                  /\ workers'[w] # workers[w] )
               => /\ workers'[w].pc = "top"
                  /\ request_durations' =
                        DequeAppend(request_durations, CallDuration(func, workers[w].n))
                  /\ \/ DictHas(results'.data, to_key(workers[w].arg))
                     \/ DictHas(results'.errors, to_key(workers[w].arg))
                  /\ results' # results
            /\ workers[w].pc # "exited" /\ workers'[w].pc = "exited"
               => workers[w].pc = "top" /\ abort_events[w]
            /\ workers[w].pc = "get" /\ abort_events[w] /\ workers'[w] # workers[w]
               => workers'[w].pc \in {"calling", "top"}]_vars

\* the abort event of a worker is set while its call is in flight
C24_Witness ==
    /\ rp_pc = "round"
    /\ \E w \in 1..Len(workers) : workers[w].pc = "calling" /\ abort_events[w]


\* every abort event is set although the feeder has not reached its own abort:
\* the pool was cancelled from outside
HardCancelled ==
    /\ rp_pc = "round"
    /\ Len(workers) = kwargs.max_workers
    /\ \A w \in 1..Len(abort_events) : abort_events[w]
    /\ f_pc \notin {"abort", "done"}

\* C25: after a hard cancel no worker pulls a new batch from the dispatch queue,
\* a worker that was blocked in the timed pull included; the calls in flight finish.
C25_NoPullAfterHardCancel ==
    [][HardCancelled =>
          /\ called' = called
          /\ \A w \in 1..Len(workers) :
                workers[w].pc = "calling" => workers'[w].pc \in {"calling", "top"}]_vars


\* the workers whose call completes in this step
Completing == {w \in 1..Len(workers) : workers[w].pc = "calling" /\ workers'[w].pc # "calling"}

\* C26: concurrent writes of the workers to the result store lose no update: in every
\* interleaving, each write to the store during a round puts the outcome of the call
\* that completes under the key of its batch and leaves every entry under another
\* key in place, so that at the join the store holds the outcome of every completed
\* call under a distinct key.
C26_NoLostUpdate ==
    [][rp_pc = "round" /\ rp_pc' = "round" /\ results' # results =>
          \E w \in Completing : \E out \in Outcomes(func, workers[w].n, workers[w].arg) :
              LET key == to_key(workers[w].arg)
              IN  /\ DictHas(results'[out.key], key)
                  /\ DictGet(results'[out.key], key) = out.response
                  /\ \A m \in {"data", "errors"} : \A i \in 1..Len(results[m]) :
                        (m # out.key \/ results[m][i].k # key) =>
                            /\ DictHas(results'[m], results[m][i].k)
                            /\ DictGet(results'[m], results[m][i].k) = results[m][i].v]_vars

\* the first call is still in flight while another worker has written its result, and
\* results of two different batches are in the store
C26_Witness ==
    /\ rp_pc = "round"
    /\ Len(workers) > 1
    /\ \E w \in 1..Len(workers) : workers[w].pc = "calling" /\ workers[w].n = 1
    /\ Len(results.data) + Len(results.errors) > 1


\* C27: the median the feeder computes is the median of a window content that existed
\* at one instant, whatever the workers append between the feeder's reads: the window
\* that passed the length test is still full when the median is taken, the decision
\* follows the median of the window of that instant, and the computation never fails.
C27_MedianOfOneSnapshot ==
    [][f_pc = "median" =>
          /\ Len(request_durations) = MinRequests
          /\ f_pc' # "median" =>
                /\ f_pc' = "put"
                /\ batch_size' = IF MedianBelowMaxDur(request_durations)
                                 THEN kwargs.max_batch_size ELSE 1]_vars

\* the median was taken after a worker appended one slow sample to the window that
\* the length test had seen full and fast
C27_Witness ==
    /\ f_pc = "put"
    /\ kwargs.use_bulk_requests
    /\ decision_log.one_slow
    /\ batch_size = kwargs.max_batch_size


\* C28: the latency window is a FIFO ring of capacity min_requests: it never holds
\* more than min_requests samples, a sample recorded into a full window evicts the
\* oldest one and nothing else, and every completed call, successful or failed,
\* contributes exactly one sample, its own duration.
C28_WindowIsFifoRing ==
    [][rp_pc = "round" /\ rp_pc' = "round" =>
          /\ Len(request_durations) <= MinRequests
          /\ Len(request_durations') <= MinRequests
          /\ IF Completing = {}
             THEN request_durations' = request_durations
             ELSE \E w \in Completing :
                     LET d == CallDuration(func, workers[w].n)
                     IN  request_durations' =
                            IF Len(request_durations) = MinRequests
                            THEN SubSeq(request_durations, 2, MinRequests) \o <<d>>
                            ELSE request_durations \o <<d>>]_vars

\* more calls than the window holds have completed, some of them failed, and the
\* full window holds fast and slow samples
C28_Witness ==
    /\ rp_pc = "round"
    /\ Len(request_durations) = MinRequests
    /\ Len(results.data) + Len(results.errors) > MinRequests
    /\ results.errors # << >>
    /\ \E i, j \in 1..MinRequests :
          request_durations[i] < MaxDur /\ request_durations[j] >= MaxDur


\* the position of argument a in the backlog of the round (0: not in it)
BacklogPos(a) ==
    IF \E i \in 1..Len(round_backlog) : round_backlog[i] = a
    THEN CHOOSE i \in 1..Len(round_backlog) : round_backlog[i] = a
    ELSE 0

\* the index in batches, from index p on, of the first batch that holds argument a
\* (0: none does)
RECURSIVE FirstBatchWith(_, _, _)
FirstBatchWith(batches, a, p) ==
    IF p > Len(batches) THEN 0
    ELSE IF InList(Items(batches[p]), a) THEN p
    ELSE FirstBatchWith(batches, a, p + 1)

\* in batches, the batch of each backlog argument comes no later than the batch
\* of the argument behind it, and so no later than those of all arguments behind it
InBacklogOrder(batches) ==
    LET first == [i \in 1..Len(round_backlog) |-> FirstBatchWith(batches, round_backlog[i], 1)]
    IN  \A j \in 2..Len(round_backlog) :
            first[j] > 0 => first[j - 1] > 0 /\ first[j - 1] <= first[j]

\* the batches pushed so far are in backlog order, inside and among themselves, and
\* were pulled in the order of the pushes
DispatchOrdered ==
    /\ InBacklogOrder(pushed)
    /\ IsPrefix(called, pushed)
    /\ \A p \in 1..Len(pushed) :
          LET pos == [x \in 1..Len(Items(pushed[p])) |-> BacklogPos(Items(pushed[p])[x])]
          IN  \A x \in 1..Len(pos) :
                 /\ pos[x] > 0
                 /\ x > 1 => pos[x - 1] < pos[x]

\* C29: within a round arguments are dispatched in backlog order: the batch of an
\* argument is pushed to the queue no later than the batch of any argument behind
\* it in the backlog, the workers pull the batches in the order of the pushes, and
\* inside a batch the arguments stand in backlog order: after every push and every
\* pull of a round.
C29_DispatchInBacklogOrder ==
    [][rp_pc' = "round" /\ <<pushed, called>>' # <<pushed, called>> => DispatchOrdered']_vars

\* several batches were pushed and pulled, one of them with several arguments
C29_Witness ==
    /\ rp_pc = "round"
    /\ Len(called) > 2
    /\ \E p \in 1..Len(called) : Len(Items(called[p])) > 1
    /\ Len(workers) > 0


\* v with every list in it, at every depth, replaced by the tuple of its elements
RECURSIVE AllTuples(_)
AllTuples(v) ==
    IF IsInt(v) \/ IsStr(v) THEN v
    ELSE PyTuple([i \in 1..Len(Items(v)) |-> AllTuples(Items(v)[i])])

\* C30: for an item built from hashable scalars, strings and nested lists and tuples,
\* to_key returns a hashable key: an item that is hashable is returned unchanged, and
\* every list or tuple at every nesting depth comes back as a tuple of the same
\* elements in the same order.
C30_KeyIsHashable ==
    to_key_module = "utils" /\ to_key_result # Unbound =>
        /\ DeepHashable(to_key_result)
        /\ DeepHashable(to_key_item) => to_key_result = to_key_item
        /\ to_key_result = AllTuples(to_key_item)


\* C31: to_key is idempotent and deterministic: the key of a key is that key, the
\* key returned is the one the item determines, and so equal items have equal keys.
C31_KeyIdempotent ==
    to_key_module = "utils" /\ to_key_result # Unbound =>
        /\ to_key_result = to_key(to_key_item)
        /\ to_key(to_key_result) = to_key_result

\* to_key has converted a list that holds a list or a tuple
C31_Witness ==
    /\ to_key_module = "utils"
    /\ to_key_result # Unbound
    /\ IsList(to_key_item)
    /\ Depth(to_key_item) > 1
    /\ to_key_result # to_key_item

\* C32: both to_key implementations treat strings as atomic: for a list or tuple that
\* holds a string, the call returns (the recursion terminates) and the string is an
\* element of the key, unchanged.
C32_StringsAtomic ==
    /\ to_key_result # Unbound
    /\ IsList(to_key_item) \/ IsTuple(to_key_item)
    => /\ ~IsRaised(to_key_result)
       /\ \A i \in 1..Len(Items(to_key_item)) :
             IsStr(Items(to_key_item)[i]) => to_key_result.tup[i] = Items(to_key_item)[i]


\* C33: an argument that no hashable key can be made of is fatal to the run: the run
\* does not return normally, and no worker dies on the argument leaving it in
\* neither map.
C33_UnkeyableIsFatal ==
    (\E i \in 1..Len(orig_args) : IsObject(orig_args[i])) =>
        /\ \A w \in 1..Len(workers) : workers[w].pc # "crashed"
        /\ rp_pc # "returned"


\* C34: get_request and post_request attempt the call at most max_repeat times, stop
\* at the first attempt whose response is ok and return that response, and raise
\* the HTTP error of the last response only when all max_repeat attempts failed.
C34_RetryUntilOk ==
    /\ attempt <= self_max_repeat
    /\ Len(sent) = attempt
    /\ \A n \in 1..(Len(sent) - 1) : ~sent[n].ok
    /\ http_pc = "loop" => \A n \in 1..Len(sent) : ~sent[n].ok
    /\ http_pc = "returned" => resp.ok /\ resp = sent[Len(sent)]
    /\ http_pc = "raised_http" =>
          /\ attempt = self_max_repeat
          /\ \A n \in 1..Len(sent) : ~sent[n].ok
          /\ resp = sent[Len(sent)]

\* a call that returned the response of a later attempt after failed ones, and a
\* call that raised after max_repeat failed attempts
C34_Witness ==
    /\ http_pc \in {"returned", "raised_http"}
    /\ attempt > 1
    /\ http_pc = "returned" => attempt < self_max_repeat


\* C35: run_request returns a dictionary in which every argument of args appears,
\* under its key, in exactly one of 'data' and 'errors': a failing request is
\* recorded and does not keep the results of the other requests from being returned.
C35_EveryArgRecordedOnce ==
    /\ cr_pc # "raised"
    /\ cr_pc = "returned" =>
          \A p \in 1..Len(cr_args) :
              DictHas(response_data.data, cr_to_key(cr_args[p]))
                  # DictHas(response_data.errors, cr_to_key(cr_args[p]))


\* C36: run_pool called with an empty argument list, or with max_repeat <= 0,
\* executes zero rounds and returns the empty result structure (empty successes,
\* empty failures) without raising.
C36_ZeroRoundsReturnEmpty ==
    (Len(orig_args) = 0 \/ orig_max_repeat <= 0) /\ rp_pc # "loop" =>
        /\ rounds = 0
        /\ rp_pc = "returned"
        /\ rp_results = EmptyResults


\* C37: a pool constructed with an empty backlog terminates: the feeder completes
\* without error, the coordinator broadcasts cancellation, every worker exits and
\* return_data returns empty success and failure maps.  Stated here: with an empty
\* backlog the feeder never ends in an error, and once it has drained the queue
\* the results are the empty maps.
C37_EmptyBacklogTerminates ==
    round_backlog = << >> =>
        /\ f_pc # "crashed"
        /\ rp_pc = "loop" => return_values = EmptyResults


\* the feeder waits in data_queue.put on a full queue that no live worker will empty
FeederBlockedForever ==
    /\ f_pc = "put"
    /\ QueueFull(data_queue, kwargs)
    /\ Len(workers) = kwargs.max_workers
    /\ \A w \in 1..Len(workers) : ~IsAlive(workers[w])

\* C38: after an external hard cancel the feeder stops too: it pushes no further
\* batch onto the dispatch queue and its loop exits, so no feeder remains blocked
\* forever on a full queue once every worker has exited.
C38_FeederStopsAfterHardCancel ==
    [][HardCancelled => pushed' = pushed /\ ~FeederBlockedForever']_vars

====
